---- MODULE Spec2Model ----
(***************************************************************************)
(* Model of stage4_extreme_temps.py: the ExtremeWaveDetector class and the *)
(* extract_extremes function that runs it once over the extreme cold days  *)
(* and once over the extreme heat days.                                    *)
(*                                                                         *)
(* Text fields of the CSV input are sequences of characters.  A character  *)
(* is a number: 0..9 are the digits, 10 stands for a character that is not *)
(* a digit (it sorts after the digits, as a letter does).                  *)
(***************************************************************************)
EXTENDS Integers, Sequences, FiniteSets, TLC

(***************************************************************************)
(* Bounds of the model.                                                    *)
(***************************************************************************)
\* rows of the tmax file that the cold filter keeps, at most
MaxColdRows == 2
\* rows of the tmin file that the heat filter keeps, at most
MaxHotRows == 2
\* calls of push on a detector driven directly (SpecDetector)
MaxPush == 3
\* calls of dump_stack made directly on a detector (SpecDetector)
MaxDump == 2
\* rows put through the filters on their own (SpecFilter)
MaxFilterRows == 2
\* directories the batch loop finds (SpecBatch)
MaxGroups == 2

(***************************************************************************)
(* Python values.                                                          *)
(***************************************************************************)
\* None as the value of last_id: a string that is no id of the input
None == <<10, 10, 10, 10>>

\* None as the value of last_wave_id: an integer that is no wave id
NoWaveId == 0 - 1

\* the default of dict.get in the filter: -1e100, below every observation
\* value of the model
MISSING_CUTOFF == -1000

\* int(s) succeeds: s is a non-empty string of digits
IsInt(s) == Len(s) > 0 /\ \A i \in 1..Len(s) : s[i] < 10

\* int(s) of a string of digits
RECURSIVE int(_)
int(s) == IF Len(s) = 0 THEN 0
          ELSE 10 * int(SubSeq(s, 1, Len(s) - 1)) + s[Len(s)]

\* s[a:b] of Python, 0-based, end exclusive, clipped to the string
Slice(s, a, b) ==
    LET hi == IF b < Len(s) THEN b ELSE Len(s)
    IN  IF a >= hi THEN <<>> ELSE SubSeq(s, a + 1, hi)

\* s < t on Python strings (lexicographic on characters)
RECURSIVE StrLess(_, _)
StrLess(s, t) ==
    IF Len(t) = 0 THEN FALSE
    ELSE IF Len(s) = 0 THEN TRUE
    ELSE IF s[1] # t[1] THEN s[1] < t[1]
    ELSE StrLess(Tail(s), Tail(t))

(***************************************************************************)
(* datetime.datetime(year, month, day) and the difference of two of them   *)
(* in days.                                                                *)
(***************************************************************************)
IsLeap(y) == y % 4 = 0 /\ (y % 100 # 0 \/ y % 400 = 0)

DaysInMonth(y, m) ==
    IF m = 2 THEN (IF IsLeap(y) THEN 29 ELSE 28)
    ELSE IF m \in {4, 6, 9, 11} THEN 30 ELSE 31

\* datetime(y, m, d) does not raise ValueError
IsDate(y, m, d) ==
    /\ y \in 1..9999
    /\ m \in 1..12
    /\ d \in 1..DaysInMonth(y, m)

datetime(y, m, d) == [year |-> y, month |-> m, day |-> d]

RECURSIVE DaysBeforeMonth(_, _)
DaysBeforeMonth(y, m) ==
    IF m = 1 THEN 0 ELSE DaysBeforeMonth(y, m - 1) + DaysInMonth(y, m - 1)

\* the proleptic Gregorian ordinal of a date: 1 for 0001-01-01
toordinal(dt) ==
    LET y == dt.year - 1
    IN  y * 365 + (y \div 4) - (y \div 100) + (y \div 400)
          + DaysBeforeMonth(dt.year, dt.month) + dt.day

\* (a - b).days
DaysBetween(a, b) == toordinal(a) - toordinal(b)

(***************************************************************************)
(* ExtremeWaveDetector.  A detector is a record of the object's fields;    *)
(* the output file it writes to is the sequence of the rows written.  An   *)
(* operation maps the detector and the file to the detector and the file   *)
(* after it: [self |-> ..., fp |-> ...].                                   *)
(***************************************************************************)
\* fieldnames gone wrong: wave_length is put before wave_index
fieldnamesLengthFirst(id_field) ==
    <<id_field, "year", "month", "day", "extreme", "wave_id", "wave_length",
      "wave_index">>

\* the fieldnames of the csv.DictWriter
fieldnames(id_field) ==
    <<id_field, "year", "month", "day", "extreme", "wave_id", "wave_index",
      "wave_length">>

HeaderRow(id_field) == [kind |-> "header", cols |-> fieldnames(id_field)]

\* WritesHeader gone wrong: every detector writes the header
WritesHeaderAlways(wave_id_start) == TRUE

\* the detector writes the header when it is constructed from wave id 0
WritesHeader(wave_id_start) == wave_id_start = 0

\* NewDetector gone wrong: the numbering always starts from 0
NewDetectorFromZero(id_field, extreme_label, fp, wave_id_start) ==
    [self |-> [id_field      |-> id_field,
               extreme_label |-> extreme_label,
               last_date     |-> datetime(1, 1, 1),
               last_id       |-> None,
               date_stack    |-> <<>>,
               wave_id       |-> 0],
     fp   |-> IF WritesHeader(wave_id_start)
              THEN Append(fp, HeaderRow(id_field))
              ELSE fp]

\* __init__
NewDetector(id_field, extreme_label, fp, wave_id_start) ==
    [self |-> [id_field      |-> id_field,
               extreme_label |-> extreme_label,
               last_date     |-> datetime(1, 1, 1),
               last_id       |-> None,
               date_stack    |-> <<>>,
               wave_id       |-> wave_id_start],
     fp   |-> IF WritesHeader(wave_id_start)
              THEN Append(fp, HeaderRow(id_field))
              ELSE fp]

\* WaveRow gone wrong: wave_index is the 0-based position
WaveRowIndexFromZero(self, wave_id, i) ==
    [kind        |-> "data",
     id          |-> self.last_id,
     year        |-> self.date_stack[i].year,
     month       |-> self.date_stack[i].month,
     day         |-> self.date_stack[i].day,
     extreme     |-> self.extreme_label,
     wave_id     |-> wave_id,
     wave_index  |-> i - 1,
     wave_length |-> Len(self.date_stack)]

\* WaveRow gone wrong: wave_length is the position of the row
WaveRowLengthSoFar(self, wave_id, i) ==
    [kind        |-> "data",
     id          |-> self.last_id,
     year        |-> self.date_stack[i].year,
     month       |-> self.date_stack[i].month,
     day         |-> self.date_stack[i].day,
     extreme     |-> self.extreme_label,
     wave_id     |-> wave_id,
     wave_index  |-> i,
     wave_length |-> i]

\* the row dump_stack writes for the i-th date of the stack
WaveRow(self, wave_id, i) ==
    [kind        |-> "data",
     id          |-> self.last_id,
     year        |-> self.date_stack[i].year,
     month       |-> self.date_stack[i].month,
     day         |-> self.date_stack[i].day,
     extreme     |-> self.extreme_label,
     wave_id     |-> wave_id,
     wave_index  |-> i,
     wave_length |-> Len(self.date_stack)]

\* the wave id dump_stack moves to
DumpWaveId(self) == self.wave_id + 1

\* dump_stack gone wrong: the stack is not emptied
dump_stackKeepsStack(self, fp) ==
    LET wid == DumpWaveId(self)
    IN  [self |-> [self EXCEPT !.wave_id = wid],
         fp   |-> fp \o [i \in 1..Len(self.date_stack) |->
                            WaveRow(self, wid, i)]]

\* dump_stack
dump_stack(self, fp) ==
    LET wid == DumpWaveId(self)
    IN  [self |-> [self EXCEPT !.wave_id = wid, !.date_stack = <<>>],
         fp   |-> fp \o [i \in 1..Len(self.date_stack) |-> WaveRow(self, wid, i)]]

\* push parses the line without raising
PushParses(line) ==
    /\ IsInt(Slice(line.date, 0, 4))
    /\ IsInt(Slice(line.date, 4, 6))
    /\ IsInt(Slice(line.date, 6, 8))
    /\ IsDate(int(Slice(line.date, 0, 4)), int(Slice(line.date, 4, 6)),
              int(Slice(line.date, 6, 8)))

\* new_date of push
ParseDate(line) ==
    datetime(int(Slice(line.date, 0, 4)), int(Slice(line.date, 4, 6)),
             int(Slice(line.date, 6, 8)))

\* IsNewGroup gone wrong: a change of id alone does not open a group
IsNewGroupDateOnly(self, new_id, new_date) ==
    DaysBetween(new_date, self.last_date) > 1

\* IsNewGroup gone wrong: a gap of two days does not open a group
IsNewGroupWideGap(self, new_id, new_date) ==
    \/ new_id # self.last_id
    \/ DaysBetween(new_date, self.last_date) > 2

\* IsNewGroup gone wrong: the next day opens a group
IsNewGroupNextDay(self, new_id, new_date) ==
    \/ new_id # self.last_id
    \/ DaysBetween(new_date, self.last_date) >= 1

\* IsNewGroup gone wrong: a date before the last one opens a group
IsNewGroupOnStepBack(self, new_id, new_date) ==
    \/ new_id # self.last_id
    \/ DaysBetween(new_date, self.last_date) > 1
    \/ DaysBetween(new_date, self.last_date) < 0

\* the condition under which push dumps the stack
IsNewGroup(self, new_id, new_date) ==
    \/ new_id # self.last_id
    \/ DaysBetween(new_date, self.last_date) > 1

\* push gone wrong: the stack is dumped on every new group, also when it
\* is empty
pushDumpsEmptyStack(self, fp, line) ==
    LET new_id   == line.id
        new_date == ParseDate(line)
        dumped   == IF IsNewGroup(self, new_id, new_date)
                    THEN dump_stack(self, fp)
                    ELSE [self |-> self, fp |-> fp]
    IN  [self |-> [dumped.self EXCEPT !.date_stack = Append(@, new_date),
                                      !.last_date  = new_date,
                                      !.last_id    = new_id],
         fp   |-> dumped.fp]

\* push, for a line that parses
push(self, fp, line) ==
    LET new_id   == line.id
        new_date == ParseDate(line)
        dumped   == IF /\ IsNewGroup(self, new_id, new_date)
                       /\ Len(self.date_stack) > 0
                    THEN dump_stack(self, fp)
                    ELSE [self |-> self, fp |-> fp]
        cleared  == IF IsNewGroup(self, new_id, new_date)
                    THEN [dumped.self EXCEPT !.date_stack = <<>>]
                    ELSE dumped.self
    IN  [self |-> [cleared EXCEPT !.date_stack = Append(@, new_date),
                                  !.last_date  = new_date,
                                  !.last_id    = new_id],
         fp   |-> dumped.fp]

(***************************************************************************)
(* The input of the model.                                                 *)
(***************************************************************************)
\* location ids (the first column of the input files)
Ids == {<<0, 1>>, <<0, 2>>}

\* the name of the first column of the input files
IdFieldNames == {"GEOID"}

\* date fields: 20191231, 20200101, 20200102 and "202001xx"
GoodDates == {<<2, 0, 1, 9, 1, 2, 3, 1>>, <<2, 0, 2, 0, 0, 1, 0, 1>>,
              <<2, 0, 2, 0, 0, 1, 0, 2>>}
BadDates == {<<2, 0, 2, 0, 0, 1, 10, 10>>}

\* date fields for a detector driven directly: also 20200229, 20200301 and
\* 20200230, which is all digits and no date
DetectorDates ==
    GoodDates \cup BadDates
      \cup {<<2, 0, 2, 0, 0, 2, 2, 9>>, <<2, 0, 2, 0, 0, 3, 0, 1>>,
            <<2, 0, 2, 0, 0, 2, 3, 0>>}

\* value fields: "0", "1", "2" and "x"
GoodValues == {<<0>>, <<1>>, <<2>>}
BadValues == {<<10>>}

\* the rows a csv.DictReader can yield from an input file
InputLines ==
    [id : Ids, date : GoodDates \cup BadDates, value : GoodValues \cup BadValues]

\* the lines pushed to a detector driven directly
DetectorLines == [id : Ids, date : DetectorDates, value : {<<1>>}]

\* results of extract_quantiles: year -> id -> cutoff.  The first has a
\* cutoff for every year and id of the input; the second has no entry for
\* the year 2019 and none for the id 02 in 2020.
CutoffTables ==
    { (<<2, 0, 1, 9>> :> (<<0, 1>> :> 1 @@ <<0, 2>> :> 1))
        @@ (<<2, 0, 2, 0>> :> (<<0, 1>> :> 1 @@ <<0, 2>> :> 1)),
      (<<2, 0, 2, 0>> :> (<<0, 1>> :> 1)) }

\* float(s) succeeds
IsFloat(s) == IsInt(s)

\* float(s)
float(s) == int(s)

(***************************************************************************)
(* The extreme-day filter and the sort of extract_extremes.                *)
(***************************************************************************)
\* cutoffs[year].get(id, -1e100) on a defaultdict(dict)
Cutoff(cutoffs, line) ==
    LET year == Slice(line.date, 0, 4)
    IN  IF year \in DOMAIN cutoffs /\ line.id \in DOMAIN cutoffs[year]
        THEN cutoffs[year][line.id]
        ELSE MISSING_CUTOFF

\* the (year, id) of the line has an entry in the cutoff table
HasCutoff(cutoffs, line) ==
    /\ Slice(line.date, 0, 4) \in DOMAIN cutoffs
    /\ line.id \in DOMAIN cutoffs[Slice(line.date, 0, 4)]

\* IsColdDay gone wrong: a value equal to the cutoff is kept
IsColdDayOrEqual(cutoffs, line) ==
    float(line.value) <= Cutoff(cutoffs, line)

\* the condition of the cold_days comprehension
IsColdDay(cutoffs, line) == float(line.value) < Cutoff(cutoffs, line)

\* the condition of the hot_days comprehension
IsHotDay(cutoffs, line) == float(line.value) > Cutoff(cutoffs, line)

\* the sort key (line[id_field], line["date"]) of a is below that of b
KeyLess(a, b) ==
    \/ StrLess(a.id, b.id)
    \/ a.id = b.id /\ StrLess(a.date, b.date)

\* x inserted into the sorted list s after every element whose key is not
\* above its own (the sort is stable)
RECURSIVE Insert(_, _)
Insert(s, x) ==
    IF Len(s) = 0 THEN <<x>>
    ELSE IF KeyLess(x, s[Len(s)])
         THEN Append(Insert(SubSeq(s, 1, Len(s) - 1), x), s[Len(s)])
         ELSE Append(s, x)

\* sorted gone wrong: the days are left in the order of the file
unsorted(days) == days

\* sorted(days, key=lambda line: (line[id_field], line["date"]))
RECURSIVE sorted(_)
sorted(days) ==
    IF Len(days) = 0 THEN <<>>
    ELSE Insert(sorted(SubSeq(days, 1, Len(days) - 1)), days[Len(days)])

(***************************************************************************)
(* The state.                                                              *)
(***************************************************************************)
VARIABLES
    pc,                 \* where extract_extremes (or the driver of a detector) is
    cold_cutoffs_tmax,  \* argument of extract_extremes
    hot_cutoffs_tmin,   \* argument of extract_extremes
    cold_days,          \* the list of extract_extremes
    hot_days,           \* the list of extract_extremes
    n,                  \* lines of the list the push loop has taken
    wave_detector,      \* the fields of the ExtremeWaveDetector object
    wave_id_start,      \* the argument the detector was constructed with
    last_wave_id,       \* the local of extract_extremes
    output_fp,          \* the rows written to the file at temp_path
    output_path,        \* the file at output_path
    pushed,             \* the lines pushed to the detector so far
    dumps,              \* calls of dump_stack made on the detector by its user
    malformed_read,     \* a row with a malformed date or value was read
    cur_line,           \* the row under the filter (SpecFilter)
    extra_directories,  \* the directories of the batch loop and their files
    group,              \* directories the batch loop has taken
    pair,               \* cutoff pairs the loop over the pairs has taken
    outputs             \* per directory, the pairs whose output file exists

vars == <<pc, cold_cutoffs_tmax, hot_cutoffs_tmin, cold_days, hot_days, n,
          wave_detector, wave_id_start, last_wave_id, output_fp, output_path,
          pushed, dumps, malformed_read, cur_line, extra_directories, group, pair,
          outputs>>

inputVars == <<cold_cutoffs_tmax, hot_cutoffs_tmin>>
detectorVars == <<wave_detector, wave_id_start, output_fp, pushed, dumps>>
filterVars == <<cur_line>>
batchVars == <<extra_directories, group, pair, outputs>>
sideVars == <<filterVars, batchVars>>

\* no row is under the filter
NoLine == [id |-> None, date |-> <<>>, value |-> <<>>]

\* the fields of a detector before any is constructed
NoDetector == NewDetector("", "", <<>>, 0).self

\* the file at output_path before the run: whatever was there, untouched
Untouched == [renamed |-> FALSE, rows |-> <<>>]

\* the date or the value of the row is malformed
Malformed(line) == ~PushParses(line) \/ ~IsFloat(line.value)

(***************************************************************************)
(* extract_extremes.                                                       *)
(***************************************************************************)
Init ==
    /\ pc = "start"
    /\ cold_cutoffs_tmax \in CutoffTables
    /\ hot_cutoffs_tmin \in CutoffTables
    /\ cold_days = <<>>
    /\ hot_days = <<>>
    /\ n = 0
    /\ wave_detector = NoDetector
    /\ wave_id_start = 0
    /\ last_wave_id = NoWaveId
    /\ output_fp = <<>>
    /\ output_path = Untouched
    /\ pushed = <<>>
    /\ dumps = 0
    /\ malformed_read = FALSE
    /\ cur_line = NoLine
    /\ extra_directories = <<>>
    /\ group = 0
    /\ pair = 0
    /\ outputs = <<>>

\* gzip.open(temp_path, "wt") and gzip.open(tmax_path, "rt")
OpenTemp ==
    /\ pc = "start"
    /\ pc' = "cold_filter"
    /\ output_fp' = <<>>
    /\ UNCHANGED <<inputVars, sideVars, cold_days, hot_days, n, wave_detector,
                   wave_id_start, last_wave_id, output_path, pushed, dumps,
                   malformed_read>>

\* one row of the tmax file through the comprehension of cold_days
ColdRow(line) ==
    /\ pc = "cold_filter"
    /\ Len(cold_days) < MaxColdRows
    /\ malformed_read' = (malformed_read \/ Malformed(line))
    /\ IF ~IsFloat(line.value)
       THEN pc' = "aborted" /\ UNCHANGED cold_days
       ELSE /\ pc' = pc
            /\ cold_days' = IF IsColdDay(cold_cutoffs_tmax, line)
                            THEN Append(cold_days, line)
                            ELSE cold_days
    /\ UNCHANGED <<inputVars, sideVars, hot_days, n, detectorVars, last_wave_id,
                   output_path>>

\* the end of the tmax file: the sort and the construction of the detector
ColdDetector ==
    /\ pc = "cold_filter"
    /\ pc' = "cold_push"
    /\ cold_days' = sorted(cold_days)
    /\ \E id_field \in IdFieldNames :
         LET r == NewDetector(id_field, "cold", output_fp, 0)
         IN  wave_detector' = r.self /\ output_fp' = r.fp
    /\ wave_id_start' = 0
    /\ pushed' = <<>>
    /\ dumps' = 0
    /\ n' = 0
    /\ UNCHANGED <<inputVars, sideVars, hot_days, last_wave_id, output_path,
                   malformed_read>>

\* one turn of a push loop over days
PushNext(days) ==
    /\ n < Len(days)
    /\ IF PushParses(days[n + 1])
       THEN LET r == push(wave_detector, output_fp, days[n + 1])
            IN  /\ wave_detector' = r.self
                /\ output_fp' = r.fp
                /\ pushed' = Append(pushed, days[n + 1])
                /\ n' = n + 1
                /\ pc' = pc
       ELSE /\ pc' = "aborted"
            /\ UNCHANGED <<wave_detector, output_fp, pushed, n>>
    /\ UNCHANGED <<inputVars, sideVars, cold_days, hot_days, wave_id_start, dumps,
                   last_wave_id, output_path, malformed_read>>

\* for line in cold_days: wave_detector.push(line)
ColdPush == pc = "cold_push" /\ PushNext(cold_days)

\* the dump of the last stack of the cold pass, and last_wave_id
ColdDump ==
    /\ pc = "cold_push"
    /\ n = Len(cold_days)
    /\ LET r == dump_stack(wave_detector, output_fp)
       IN  /\ wave_detector' = r.self
           /\ output_fp' = r.fp
           /\ last_wave_id' = r.self.wave_id
    /\ dumps' = dumps + 1
    /\ pc' = "hot_filter"
    /\ UNCHANGED <<inputVars, sideVars, cold_days, hot_days, n, wave_id_start,
                   output_path, pushed, malformed_read>>

\* one row of the tmin file through the comprehension of hot_days
HotRow(line) ==
    /\ pc = "hot_filter"
    /\ Len(hot_days) < MaxHotRows
    /\ malformed_read' = (malformed_read \/ Malformed(line))
    /\ IF ~IsFloat(line.value)
       THEN pc' = "aborted" /\ UNCHANGED hot_days
       ELSE /\ pc' = pc
            /\ hot_days' = IF IsHotDay(hot_cutoffs_tmin, line)
                           THEN Append(hot_days, line)
                           ELSE hot_days
    /\ UNCHANGED <<inputVars, sideVars, cold_days, n, detectorVars, last_wave_id,
                   output_path>>

\* the end of the tmin file: the sort and the construction of the detector
HotDetector ==
    /\ pc = "hot_filter"
    /\ pc' = "hot_push"
    /\ hot_days' = sorted(hot_days)
    /\ \E id_field \in IdFieldNames :
         LET r == NewDetector(id_field, "hot", output_fp, last_wave_id)
         IN  wave_detector' = r.self /\ output_fp' = r.fp
    /\ wave_id_start' = last_wave_id
    /\ pushed' = <<>>
    /\ dumps' = 0
    /\ n' = 0
    /\ UNCHANGED <<inputVars, sideVars, cold_days, last_wave_id, output_path,
                   malformed_read>>

\* for line in hot_days: wave_detector.push(line)
HotPush == pc = "hot_push" /\ PushNext(hot_days)

\* the dump of the last stack of the heat pass; the with block closes the file
HotDump ==
    /\ pc = "hot_push"
    /\ n = Len(hot_days)
    /\ LET r == dump_stack(wave_detector, output_fp)
       IN  wave_detector' = r.self /\ output_fp' = r.fp
    /\ dumps' = dumps + 1
    /\ pc' = "rename"
    /\ UNCHANGED <<inputVars, sideVars, cold_days, hot_days, n, wave_id_start,
                   last_wave_id, output_path, pushed, malformed_read>>

\* Rename gone wrong: the rename also runs when the run has failed
RenameAlsoAfterFailure ==
    /\ pc \in {"rename", "aborted"}
    /\ output_path = Untouched
    /\ output_path' = [renamed |-> TRUE, rows |-> output_fp]
    /\ pc' = IF pc = "rename" THEN "done" ELSE pc
    /\ UNCHANGED <<inputVars, sideVars, cold_days, hot_days, n, detectorVars,
                   last_wave_id, malformed_read>>

\* os.rename(temp_path, output_path)
Rename ==
    /\ pc = "rename"
    /\ output_path' = [renamed |-> TRUE, rows |-> output_fp]
    /\ pc' = "done"
    /\ UNCHANGED <<inputVars, sideVars, cold_days, hot_days, n, detectorVars,
                   last_wave_id, malformed_read>>

\* the process is interrupted before it has finished
Interrupt ==
    /\ pc \in {"start", "cold_filter", "cold_push", "hot_filter", "hot_push",
               "rename"}
    /\ pc' = "aborted"
    /\ UNCHANGED <<inputVars, sideVars, cold_days, hot_days, n, detectorVars,
                   last_wave_id, output_path, malformed_read>>

Next ==
    \/ OpenTemp
    \/ \E line \in InputLines : ColdRow(line)
    \/ ColdDetector
    \/ ColdPush
    \/ ColdDump
    \/ \E line \in InputLines : HotRow(line)
    \/ HotDetector
    \/ HotPush
    \/ HotDump
    \/ Rename
    \/ Interrupt

Spec == Init /\ [][Next]_vars

(***************************************************************************)
(* A detector driven directly: any sequence of push and dump_stack calls   *)
(* on one ExtremeWaveDetector.                                             *)
(***************************************************************************)
\* the detectors of the model: one that starts the numbering, as the cold
\* detector of extract_extremes does, and one that continues it from 3
DetectorSetups ==
    { [extreme_label |-> "cold", wave_id_start |-> 0],
      [extreme_label |-> "hot", wave_id_start |-> 3] }

InitDetector ==
    /\ pc = "calls"
    /\ cold_cutoffs_tmax = <<>>
    /\ hot_cutoffs_tmin = <<>>
    /\ cold_days = <<>>
    /\ hot_days = <<>>
    /\ n = 0
    /\ \E id_field \in IdFieldNames, setup \in DetectorSetups :
         LET r == NewDetector(id_field, setup.extreme_label, <<>>,
                              setup.wave_id_start)
         IN  /\ wave_id_start = setup.wave_id_start
             /\ wave_detector = r.self
             /\ output_fp = r.fp
    /\ last_wave_id = NoWaveId
    /\ output_path = Untouched
    /\ pushed = <<>>
    /\ dumps = 0
    /\ malformed_read = FALSE
    /\ cur_line = NoLine
    /\ extra_directories = <<>>
    /\ group = 0
    /\ pair = 0
    /\ outputs = <<>>

\* wave_detector.push(line)
CallPush(line) ==
    /\ pc = "calls"
    /\ Len(pushed) < MaxPush
    /\ IF PushParses(line)
       THEN LET r == push(wave_detector, output_fp, line)
            IN  /\ wave_detector' = r.self
                /\ output_fp' = r.fp
                /\ pushed' = Append(pushed, line)
                /\ pc' = pc
       ELSE /\ pc' = "aborted"
            /\ UNCHANGED <<wave_detector, output_fp, pushed>>
    /\ UNCHANGED <<inputVars, sideVars, cold_days, hot_days, n, wave_id_start, dumps,
                   last_wave_id, output_path, malformed_read>>

\* wave_detector.dump_stack()
CallDump ==
    /\ pc = "calls"
    /\ dumps < MaxDump
    /\ LET r == dump_stack(wave_detector, output_fp)
       IN  wave_detector' = r.self /\ output_fp' = r.fp
    /\ dumps' = dumps + 1
    /\ UNCHANGED <<pc, inputVars, sideVars, cold_days, hot_days, n, wave_id_start,
                   last_wave_id, output_path, pushed, malformed_read>>

NextDetector ==
    \/ \E line \in DetectorLines : CallPush(line)
    \/ CallDump

SpecDetector == InitDetector /\ [][NextDetector]_vars

(***************************************************************************)
(* Properties.                                                             *)
(***************************************************************************)
\* the data rows of a file, in the order written
DataRows(fp) == SelectSeq(fp, LAMBDA r : r.kind = "data")

\* the date of a data row
RowDate(r) == datetime(r.year, r.month, r.day)

\* the lines pushed so far are in strictly increasing (id, date) order: one
\* record per location and day, sorted by the key extract_extremes sorts by
PushedSorted ==
    \A i \in 1..(Len(pushed) - 1) : KeyLess(pushed[i], pushed[i + 1])

\* the (id, date) of the lines pushed so far, in the order pushed
PushedKeys ==
    [i \in 1..Len(pushed) |-> <<pushed[i].id, ParseDate(pushed[i])>>]

\* the (id, date) of the data rows written so far, in the order written
WrittenKeys ==
    LET d == DataRows(output_fp)
    IN  [i \in 1..Len(d) |-> <<d[i].id, RowDate(d[i])>>]

\* the (id, date) of the dates on the stack
PendingKeys ==
    [i \in 1..Len(wave_detector.date_stack) |->
        <<wave_detector.last_id, wave_detector.date_stack[i]>>]

\* C1: in the output of a full run of extract_extremes the first data row
\* has wave_id 1, every data row that opens a wave (wave_index 1) has the
\* wave_id of the row before it plus 1 and every other data row has the
\* wave_id of the row before it; the first row of the heat pass has the last
\* wave_id of the cold pass plus 1, or 1 when the cold pass wrote no row.
C1_WaveIdsNoGaps ==
    pc = "done" =>
        LET d == DataRows(output_path.rows)
        IN  /\ Len(d) > 0 => d[1].wave_id = 1
            /\ \A i \in 2..Len(d) :
                 d[i].wave_id = IF d[i].wave_index = 1
                                THEN d[i - 1].wave_id + 1
                                ELSE d[i - 1].wave_id
            /\ \A i \in 1..Len(d) :
                 (d[i].extreme = "hot" /\ (i = 1 \/ d[i - 1].extreme = "cold"))
                    => d[i].wave_id = IF i = 1 THEN 1 ELSE d[i - 1].wave_id + 1

\* C2: a call of dump_stack with an empty date_stack changes neither the
\* detector (its wave_id, date_stack, last_id, last_date) nor the output;
\* the wave_id changes only in a step that starts with a non-empty stack.
C2_DumpOfEmptyStackIsNoOp ==
    [][/\ (CallDump /\ wave_detector.date_stack = <<>>)
            => (wave_detector' = wave_detector /\ output_fp' = output_fp)
       /\ wave_detector'.wave_id # wave_detector.wave_id
            => wave_detector.date_stack # <<>>]_vars

\* C3: at every moment the data rows written, followed by the dates on the
\* stack with the last id, are as (id, date) exactly the lines pushed, in
\* the order pushed; so once the stack is dumped each pushed line is written
\* exactly once and with its own id.
C3_EveryLineInOneWave ==
    /\ WrittenKeys \o PendingKeys = PushedKeys
    /\ wave_detector.date_stack = <<>> => WrittenKeys = PushedKeys

\* C3 happens: three lines were pushed, the id changed between them, and the
\* last stack was dumped.
C3_Witness ==
    /\ Len(pushed) = 3
    /\ pushed[1].id # pushed[2].id
    /\ pushed[2].id = pushed[3].id
    /\ wave_detector.date_stack = <<>>
    /\ Len(DataRows(output_fp)) = 3

\* C4: when the lines pushed are in sorted order, any two data rows with the
\* same wave_id have the same id and the same label and their dates are as
\* many days apart as the rows are apart in the output: consecutive rows of
\* a wave are one day apart, and rows of different locations or of dates
\* that are not contiguous never share a wave_id.
C4_WavesAreContiguous ==
    PushedSorted =>
        LET d == DataRows(output_fp)
        IN  \A i, j \in 1..Len(d) :
              (i < j /\ d[i].wave_id = d[j].wave_id) =>
                  /\ d[i].id = d[j].id
                  /\ d[i].extreme = d[j].extreme
                  /\ DaysBetween(RowDate(d[j]), RowDate(d[i])) = j - i

\* C4 happens: sorted lines were pushed and a wave of three days was written
\* that crosses from 2019 into 2020.
C4_Witness ==
    /\ PushedSorted
    /\ Len(pushed) = 3
    /\ LET d == DataRows(output_fp)
       IN  /\ Len(d) = 3
           /\ d[1].wave_id = d[3].wave_id
           /\ d[1].year # d[3].year

\* C5: when the lines were pushed in sorted order and the only call of
\* dump_stack by the user is the last call, two data rows of the same id
\* whose dates are one day apart have the same wave_id, and a row with
\* wave_length 1 has wave_index 1 and no pushed line of its id is dated the
\* day before or the day after it.
C5_WavesAreMaximal ==
    (PushedSorted /\ dumps = 1 /\ wave_detector.date_stack = <<>>) =>
        LET d == DataRows(output_fp)
        IN  /\ \A i, j \in 1..Len(d) :
                 (/\ d[i].id = d[j].id
                  /\ d[i].extreme = d[j].extreme
                  /\ DaysBetween(RowDate(d[j]), RowDate(d[i])) = 1)
                     => d[i].wave_id = d[j].wave_id
            /\ \A i \in 1..Len(d) :
                 d[i].wave_length = 1 =>
                     /\ d[i].wave_index = 1
                     /\ \A k \in 1..Len(pushed) :
                          pushed[k].id = d[i].id =>
                              DaysBetween(ParseDate(pushed[k]), RowDate(d[i]))
                                 \notin {0 - 1, 1}

\* C5 happens: sorted lines of one id were pushed, the last stack was dumped
\* and the output holds a wave of two days and a wave of one day.
C5_Witness ==
    /\ PushedSorted
    /\ dumps = 1
    /\ wave_detector.date_stack = <<>>
    /\ Len(pushed) = 3
    /\ pushed[1].id = pushed[3].id
    /\ LET d == DataRows(output_fp)
       IN  /\ Len(d) = 3
           /\ \E i \in 1..3 : d[i].wave_length = 1
           /\ \E i \in 1..3 : d[i].wave_length = 2

\* C6: every data row carries as wave_length the number of data rows with
\* its wave_id and as wave_index its position among them, so the rows of a
\* wave carry 1, 2, ..., n in the order written; when the lines were pushed
\* in sorted order that is the chronological order of their dates.
C6_IndexAndLength ==
    LET d == DataRows(output_fp)
        wave(i) == {j \in 1..Len(d) : d[j].wave_id = d[i].wave_id}
    IN  \A i \in 1..Len(d) :
          /\ d[i].wave_length = Cardinality(wave(i))
          /\ d[i].wave_index = Cardinality({j \in wave(i) : j <= i})
          /\ PushedSorted =>
                \A j \in wave(i) :
                    j < i => DaysBetween(RowDate(d[i]), RowDate(d[j])) > 0

\* C6 happens: a wave of three rows was written.
C6_Witness ==
    LET d == DataRows(output_fp)
    IN  /\ PushedSorted
        /\ Len(d) = 3
        /\ d[3].wave_index = 3
        /\ d[1].wave_length = 3

\* C7: no line the cold filter keeps and no line the heat filter keeps is
\* one whose (year, id) has no entry in the cutoff table of that pass.
C7_MissingCutoffNeverExtreme ==
    /\ \A i \in 1..Len(cold_days) : HasCutoff(cold_cutoffs_tmax, cold_days[i])
    /\ \A i \in 1..Len(hot_days) : HasCutoff(hot_cutoffs_tmin, hot_days[i])

\* the output of a complete run: the header and one row for each line of
\* cold_days and of hot_days, all pushed and dumped
CompleteOutput(rows) ==
    /\ rows = output_fp
    /\ n = Len(hot_days)
    /\ wave_detector.date_stack = <<>>
    /\ Len(DataRows(rows)) = Len(cold_days) + Len(hot_days)
    /\ \A i \in 1..Len(DataRows(rows)) :
         DataRows(rows)[i].extreme =
            IF i <= Len(cold_days) THEN "cold" ELSE "hot"

\* C8: in every state the file at output_path is untouched or it is the
\* renamed temporary file, the run is done and the file holds the complete
\* output of both passes; so a run that was interrupted or that failed has
\* left output_path untouched.
C8_NoPartialOutput ==
    \/ output_path = Untouched
    \/ /\ pc = "done"
       /\ output_path.renamed
       /\ CompleteOutput(output_path.rows)

\* C8 happens: a run was interrupted or failed after rows were written to
\* the temporary file.
C8_Witness ==
    /\ pc = "aborted"
    /\ Len(DataRows(output_fp)) > 0
    /\ output_path = Untouched

\* C9: a run that has read a row with a malformed date or value does not
\* finish and exposes nothing at output_path.
C9_MalformedRowAborts ==
    malformed_read => (pc # "done" /\ output_path = Untouched)

\* C10: once the cold detector is constructed the first row of the output
\* is the header and no other row is a header, through the heat pass and in
\* the file renamed to output_path.
C10_HeaderOnce ==
    /\ \A i \in 1..Len(output_fp) : (output_fp[i].kind = "header") <=> (i = 1)
    /\ pc \in {"cold_push", "hot_filter", "hot_push", "rename", "done"}
          => Len(output_fp) >= 1
    /\ pc = "done" => output_path.rows = output_fp

\* C10 happens: a run is done in which the cold pass wrote no wave and the
\* heat pass wrote one.
C10_Witness ==
    /\ pc = "done"
    /\ Len(cold_days) = 0
    /\ Len(hot_days) > 0
    /\ Len(output_path.rows) > 1

\* C11: the wave_ids on the data rows of one detector never decrease in the
\* order written, a row that opens a wave (wave_index 1) has a wave_id above
\* that of every row before it, no wave_id is zero, and the first wave the
\* detector writes has wave_id wave_id_start + 1.
C11_WaveIdsFromStartPlusOne ==
    LET d == DataRows(output_fp)
    IN  /\ \A i \in 1..Len(d) : d[i].wave_id > 0
        /\ \A i \in 2..Len(d) :
             IF d[i].wave_index = 1
             THEN d[i].wave_id > d[i - 1].wave_id
             ELSE d[i].wave_id = d[i - 1].wave_id
        /\ Len(d) > 0 => d[1].wave_id = wave_id_start + 1

(***************************************************************************)
(* The extreme-day filters on their own: rows of the input files put       *)
(* through the condition of the cold_days comprehension or through that of *)
(* the hot_days comprehension, in any order.                               *)
(***************************************************************************)
InitFilter ==
    /\ pc = "filter"
    /\ cold_cutoffs_tmax \in CutoffTables
    /\ hot_cutoffs_tmin \in CutoffTables
    /\ cold_days = <<>>
    /\ hot_days = <<>>
    /\ n = 0
    /\ wave_detector = NoDetector
    /\ wave_id_start = 0
    /\ last_wave_id = NoWaveId
    /\ output_fp = <<>>
    /\ output_path = Untouched
    /\ pushed = <<>>
    /\ dumps = 0
    /\ malformed_read = FALSE
    /\ cur_line = NoLine
    /\ extra_directories = <<>>
    /\ group = 0
    /\ pair = 0
    /\ outputs = <<>>

\* one row through the condition of the cold_days comprehension
FilterColdRow(l) ==
    /\ pc # "aborted"
    /\ n < MaxFilterRows
    /\ n' = n + 1
    /\ cur_line' = l
    /\ malformed_read' = (malformed_read \/ Malformed(l))
    /\ IF ~IsFloat(l.value)
       THEN pc' = "aborted" /\ UNCHANGED cold_days
       ELSE /\ pc' = "cold_filter"
            /\ cold_days' = IF IsColdDay(cold_cutoffs_tmax, l)
                            THEN Append(cold_days, l)
                            ELSE cold_days
    /\ UNCHANGED <<inputVars, batchVars, hot_days, detectorVars,
                   last_wave_id, output_path>>

\* one row through the condition of the hot_days comprehension
FilterHotRow(l) ==
    /\ pc # "aborted"
    /\ n < MaxFilterRows
    /\ n' = n + 1
    /\ cur_line' = l
    /\ malformed_read' = (malformed_read \/ Malformed(l))
    /\ IF ~IsFloat(l.value)
       THEN pc' = "aborted" /\ UNCHANGED hot_days
       ELSE /\ pc' = "hot_filter"
            /\ hot_days' = IF IsHotDay(hot_cutoffs_tmin, l)
                           THEN Append(hot_days, l)
                           ELSE hot_days
    /\ UNCHANGED <<inputVars, batchVars, cold_days, detectorVars,
                   last_wave_id, output_path>>

NextFilter ==
    \/ \E l \in InputLines : FilterColdRow(l)
    \/ \E l \in InputLines : FilterHotRow(l)

SpecFilter == InitFilter /\ [][NextFilter]_vars

\* the value of the row is the cutoff of its (year, id) in the table
AtCutoff(cutoffs, l) ==
    /\ IsFloat(l.value)
    /\ HasCutoff(cutoffs, l)
    /\ float(l.value) = cutoffs[Slice(l.date, 0, 4)][l.id]

\* C12: every line the cold filter keeps has a value below its threshold
\* and every line the heat filter keeps has a value above its threshold; so
\* no kept line has a value equal to the cutoff of its (year, id).
C12_EqualToCutoffNotExtreme ==
    /\ \A i \in 1..Len(cold_days) :
         /\ float(cold_days[i].value) < Cutoff(cold_cutoffs_tmax, cold_days[i])
         /\ ~AtCutoff(cold_cutoffs_tmax, cold_days[i])
    /\ \A i \in 1..Len(hot_days) :
         /\ float(hot_days[i].value) > Cutoff(hot_cutoffs_tmin, hot_days[i])
         /\ ~AtCutoff(hot_cutoffs_tmin, hot_days[i])

\* C12 happens: two rows went through the filters, the last of them, whose
\* value equals its cutoff in both tables, through the cold filter, and no
\* row was kept.
C12_Witness ==
    /\ pc = "cold_filter"
    /\ n = 2
    /\ AtCutoff(cold_cutoffs_tmax, cur_line)
    /\ AtCutoff(hot_cutoffs_tmin, cur_line)
    /\ cold_days = <<>>
    /\ hot_days = <<>>

\* the (id, date) of the lines of a list, in the order of the list
DayKeys(days) == [i \in 1..Len(days) |-> <<days[i].id, ParseDate(days[i])>>]

\* C13: no row of the heat pass is written before the cold pass has dumped
\* its last stack and set last_wave_id, so in the output every cold row
\* comes before every hot row; the wave_ids never decrease along the
\* output and within a wave the wave_index goes up by one and the date is
\* not earlier than that of the row before; the output of a finished run is
\* one row for each line of cold_days followed by one row for each line of
\* hot_days, in the order of the sorted lists.
C13_ColdPassThenHotPass ==
    LET d == DataRows(output_fp)
    IN  /\ pc \in {"start", "cold_filter", "cold_push"} =>
              \A i \in 1..Len(d) : d[i].extreme = "cold"
        /\ pc \in {"hot_filter", "hot_push", "rename", "done"} =>
              /\ last_wave_id # NoWaveId
              /\ Len(d) >= Len(cold_days)
              /\ \A i \in 1..Len(d) : d[i].extreme = "cold" <=> i <= Len(cold_days)
        /\ \A i, j \in 1..Len(d) :
              (i < j /\ d[i].extreme = "hot") => d[j].extreme = "hot"
        /\ \A i \in 2..Len(d) :
              /\ d[i].wave_id >= d[i - 1].wave_id
              /\ d[i].wave_id = d[i - 1].wave_id =>
                    /\ d[i].wave_index = d[i - 1].wave_index + 1
                    /\ DaysBetween(RowDate(d[i]), RowDate(d[i - 1])) >= 0
        /\ pc = "done" =>
              /\ output_path.rows = output_fp
              /\ [i \in 1..Len(d) |-> <<d[i].id, RowDate(d[i])>>]
                    = DayKeys(cold_days) \o DayKeys(hot_days)

\* C13 happens: a run is done whose cold pass wrote a wave of two days and
\* whose heat pass wrote two waves.
C13_Witness ==
    LET d == DataRows(output_path.rows)
    IN  /\ pc = "done"
        /\ Len(d) = 4
        /\ d[1].extreme = "cold"
        /\ d[2].wave_id = d[1].wave_id
        /\ d[3].extreme = "hot"
        /\ d[4].wave_id # d[3].wave_id

\* the detector and the file after the lines are pushed, one after the
\* other, to the detector self writing to fp
RECURSIVE PushAll(_, _, _)
PushAll(self, fp, lines) ==
    IF Len(lines) = 0 THEN [self |-> self, fp |-> fp]
    ELSE LET r == PushAll(self, fp, SubSeq(lines, 1, Len(lines) - 1))
         IN  push(r.self, r.fp, lines[Len(lines)])

\* the data rows a second detector, constructed with the same id field and
\* label from the wave id start, writes when the lines pushed so far are
\* pushed to it and its stack is then dumped
RerunFrom(start) ==
    LET new == NewDetector(wave_detector.id_field,
                           wave_detector.extreme_label, <<>>, start)
        r   == PushAll(new.self, new.fp, pushed)
    IN  DataRows(dump_stack(r.self, r.fp).fp)

\* the wave_id_start of the second detector
OtherStarts == {0, 1, 7}

\* C14: when lines were pushed to the detector and its stack was then
\* dumped, a second detector run on the same lines from another
\* wave_id_start writes as many rows, and each row agrees with the row of
\* the first in id, date, label, wave_index and wave_length, and its
\* wave_id differs by the difference of the two wave_id_start.
C14_StartOnlyShiftsWaveIds ==
    (dumps = 1 /\ wave_detector.date_stack = <<>>) =>
        \A start \in OtherStarts :
            LET d == DataRows(output_fp)
                e == RerunFrom(start)
            IN  /\ Len(e) = Len(d)
                /\ \A i \in 1..Len(d) :
                     /\ e[i] = [d[i] EXCEPT !.wave_id = e[i].wave_id]
                     /\ e[i].wave_id - d[i].wave_id = start - wave_id_start

\* C14 happens: three sorted lines were pushed and dumped as two waves by a
\* detector that started from 3.
C14_Witness ==
    /\ dumps = 1
    /\ wave_detector.date_stack = <<>>
    /\ wave_id_start = 3
    /\ PushedSorted
    /\ Len(pushed) = 3
    /\ LET d == DataRows(output_fp)
       IN  Len(d) = 3 /\ d[1].wave_id = 4 /\ d[3].wave_id = 5

\* the sum of wave_length over the rows of the sequence
RECURSIVE SumOfWaveLength(_)
SumOfWaveLength(rows) ==
    IF Len(rows) = 0 THEN 0
    ELSE rows[1].wave_length + SumOfWaveLength(Tail(rows))

\* the data rows written for the location id
RowsOf(id) == SelectSeq(DataRows(output_fp), LAMBDA r : r.id = id)

\* the number of lines pushed for the location id
PushedFor(id) == Cardinality({k \in 1..Len(pushed) : pushed[k].id = id})

\* C15 as stated: once the stack is dumped, for each location the sum of
\* wave_length over all the rows written for it equals the number of lines
\* pushed for it.
C15_SumOverRows ==
    wave_detector.date_stack = <<>> =>
        \A id \in Ids : SumOfWaveLength(RowsOf(id)) = PushedFor(id)

\* C15 amended: once the stack is dumped, for each location the sum of
\* wave_length over its waves, each wave counted once by its row with
\* wave_index 1, equals the number of lines pushed for it, and so does the
\* number of rows written for it.
C15_SumOverWaves ==
    wave_detector.date_stack = <<>> =>
        \A id \in Ids :
            /\ SumOfWaveLength(SelectSeq(RowsOf(id),
                                         LAMBDA r : r.wave_index = 1))
                  = PushedFor(id)
            /\ Len(RowsOf(id)) = PushedFor(id)

\* C15 happens: the stack is dumped and a location has a wave of two days
\* and a wave of one day.
C15_Witness ==
    /\ wave_detector.date_stack = <<>>
    /\ \E id \in Ids :
         /\ PushedFor(id) = 3
         /\ \E i \in 1..3 : RowsOf(id)[i].wave_length = 2
         /\ \E i \in 1..3 : RowsOf(id)[i].wave_length = 1

(***************************************************************************)
(* The batch loop of the script: for every directory found, the check of   *)
(* its four input files and the loop over the cutoff pairs.                *)
(***************************************************************************)
DEFAULT_CUTOFF_QUANTILES ==
    << <<1, 99>>, <<3, 97>>, <<5, 95>>, <<10, 90>>, <<15, 85>> >>

\* the paths the loop checks with os.path.isfile, in the order checked
RequiredFiles == <<"tmax", "tmin", "tmax_quantiles", "tmin_quantiles">>

\* the input files a directory of the model holds
DirectoryFiles ==
    { {"tmax", "tmin", "tmax_quantiles", "tmin_quantiles"},
      {"tmax", "tmax_quantiles", "tmin_quantiles"},
      {} }

\* the cutoff pairs (by position) whose output file a directory of the
\* model holds before the script runs
DirectoryOutputs == { {}, {1}, 1..Len(DEFAULT_CUTOFF_QUANTILES) }

\* a required file of the directory is missing
MissingFile(files) == \E i \in 1..Len(RequiredFiles) : RequiredFiles[i] \notin files

InitBatch ==
    /\ pc = "batch_loop"
    /\ cold_cutoffs_tmax = <<>>
    /\ hot_cutoffs_tmin = <<>>
    /\ cold_days = <<>>
    /\ hot_days = <<>>
    /\ n = 0
    /\ wave_detector = NoDetector
    /\ wave_id_start = 0
    /\ last_wave_id = NoWaveId
    /\ output_fp = <<>>
    /\ output_path = Untouched
    /\ pushed = <<>>
    /\ dumps = 0
    /\ malformed_read = FALSE
    /\ cur_line = NoLine
    /\ \E k \in 0..MaxGroups :
         /\ extra_directories \in [1..k -> DirectoryFiles]
         /\ outputs \in [1..k -> DirectoryOutputs]
    /\ group = 0
    /\ pair = 0

detectorRunVars ==
    <<inputVars, filterVars, cold_days, hot_days, n, detectorVars,
      last_wave_id, output_path, malformed_read>>

\* for extra_directory in extra_directories: the check of the four paths
BatchNextGroup ==
    /\ pc = "batch_loop"
    /\ group < Len(extra_directories)
    /\ group' = group + 1
    /\ pair' = 0
    /\ pc' = IF MissingFile(extra_directories[group + 1])
             THEN "missing_file"
             ELSE "batch_pairs"
    /\ UNCHANGED <<detectorRunVars, extra_directories, outputs>>

\* the output of the next pair exists: "Skipping"
BatchSkip ==
    /\ pc = "batch_pairs"
    /\ pair < Len(DEFAULT_CUTOFF_QUANTILES)
    /\ pair + 1 \in outputs[group]
    /\ pair' = pair + 1
    /\ UNCHANGED <<pc, detectorRunVars, extra_directories, group, outputs>>

\* the output of the next pair does not exist: extract_extremes writes it
BatchGenerate ==
    /\ pc = "batch_pairs"
    /\ pair < Len(DEFAULT_CUTOFF_QUANTILES)
    /\ pair + 1 \notin outputs[group]
    /\ pair' = pair + 1
    /\ outputs' = [outputs EXCEPT ![group] = @ \cup {pair + 1}]
    /\ UNCHANGED <<pc, detectorRunVars, extra_directories, group>>

\* the output of the next pair does not exist and extract_extremes raises
BatchGenerateFails ==
    /\ pc = "batch_pairs"
    /\ pair < Len(DEFAULT_CUTOFF_QUANTILES)
    /\ pair + 1 \notin outputs[group]
    /\ pc' = "aborted"
    /\ UNCHANGED <<detectorRunVars, batchVars>>

\* the loop over the pairs ends
BatchPairsDone ==
    /\ pc = "batch_pairs"
    /\ pair = Len(DEFAULT_CUTOFF_QUANTILES)
    /\ pc' = "batch_loop"
    /\ UNCHANGED <<detectorRunVars, batchVars>>

\* the loop over the directories ends
BatchDone ==
    /\ pc = "batch_loop"
    /\ group = Len(extra_directories)
    /\ pc' = "batch_done"
    /\ UNCHANGED <<detectorRunVars, batchVars>>

NextBatch ==
    \/ BatchNextGroup
    \/ BatchSkip
    \/ BatchGenerate
    \/ BatchGenerateFails
    \/ BatchPairsDone
    \/ BatchDone

SpecBatch == InitBatch /\ [][NextBatch]_vars

\* C16: when the script has stopped on a missing input file, no pair of
\* that directory was processed and every other directory found was taken
\* by the loop: the directory with the missing file is the last one.
C16_MissingFileScopedToGroup ==
    pc = "missing_file" =>
        /\ pair = 0
        /\ group = Len(extra_directories)

\* C17 as stated: every header row of the output holds the columns id
\* field name, year, month, day, extreme, wave_id, wave_length, wave_index,
\* in this order.
C17_HeaderLengthBeforeIndex ==
    \A i \in 1..Len(output_fp) :
        output_fp[i].kind = "header" =>
            output_fp[i].cols =
                <<wave_detector.id_field, "year", "month", "day", "extreme",
                  "wave_id", "wave_length", "wave_index">>

\* C17 amended: every header row of the output holds the columns id field
\* name, year, month, day, extreme, wave_id, wave_index, wave_length, in
\* this order.
C17_HeaderIndexBeforeLength ==
    \A i \in 1..Len(output_fp) :
        output_fp[i].kind = "header" =>
            output_fp[i].cols =
                <<wave_detector.id_field, "year", "month", "day", "extreme",
                  "wave_id", "wave_index", "wave_length">>

\* C17 happens: the header was written and rows after it.
C17_Witness ==
    /\ Len(output_fp) > 1
    /\ output_fp[1].kind = "header"
    /\ wave_detector.id_field \in IdFieldNames

\* the step is a call of push that did not raise
PushStep == pushed' # pushed

\* the line pushed by the step
PushedLine == pushed'[Len(pushed')]

\* C18: a call of push made while the date_stack is empty, on a fresh
\* detector or after a dump, writes no row and leaves the wave_id as it is,
\* and after it the date_stack holds the date of the line alone and last_id
\* and last_date are those of the line.
C18_PushOnEmptyStackDoesNotDump ==
    [][(PushStep /\ wave_detector.date_stack = <<>>) =>
          /\ output_fp' = output_fp
          /\ wave_detector'.wave_id = wave_detector.wave_id
          /\ wave_detector'.date_stack = <<ParseDate(PushedLine)>>
          /\ wave_detector'.last_id = PushedLine.id
          /\ wave_detector'.last_date = ParseDate(PushedLine)]_vars

\* C18 happens: a line was pushed and dumped by the user, a line of another
\* location was then pushed, and the only wave id used up is that of the
\* user's dump.
C18_Witness ==
    /\ Len(pushed) = 2
    /\ pushed[1].id # pushed[2].id
    /\ dumps = 1
    /\ wave_detector.wave_id = wave_id_start + 1
    /\ Len(DataRows(output_fp)) = 1
    /\ Len(wave_detector.date_stack) = 1

\* C19: a call of push with a line of the last id whose date is the last
\* date or earlier does not raise, writes no row, leaves the wave_id as it
\* is and appends the date to the date_stack.
C19_NoOrderingValidation ==
    [][(/\ pc = "calls"
        /\ Len(pushed) < MaxPush
        /\ wave_detector.date_stack # <<>>
        /\ \E l \in DetectorLines :
             /\ PushParses(l)
             /\ l.id = wave_detector.last_id
             /\ DaysBetween(ParseDate(l), wave_detector.last_date) <= 0
             /\ CallPush(l)) =>
          /\ pc' = "calls"
          /\ output_fp' = output_fp
          /\ wave_detector'.wave_id = wave_detector.wave_id
          /\ Len(wave_detector'.date_stack) = Len(wave_detector.date_stack) + 1
          /\ SubSeq(wave_detector'.date_stack, 1, Len(wave_detector.date_stack))
                = wave_detector.date_stack
          /\ DaysBetween(wave_detector'.last_date, wave_detector.last_date) <= 0
      ]_vars

\* C19 happens: the stack was dumped and a wave was written whose second
\* date is the first date or earlier.
C19_Witness ==
    LET d == DataRows(output_fp)
    IN  /\ Len(d) >= 2
        /\ d[1].wave_id = d[2].wave_id
        /\ DaysBetween(RowDate(d[2]), RowDate(d[1])) <= 0

\* C20: after a call of push that did not raise the date_stack is not
\* empty, its last date is last_date, and its dates are those of the last
\* lines pushed, all of them pushed with last_id; after a call of
\* dump_stack the date_stack is empty; no step lowers the wave_id.
C20_StackAndCounter ==
    [][/\ PushStep =>
            LET stack == wave_detector'.date_stack
                k     == Len(pushed') - Len(stack)
            IN  /\ Len(stack) > 0
                /\ stack[Len(stack)] = wave_detector'.last_date
                /\ k >= 0
                /\ \A i \in 1..Len(stack) :
                     /\ pushed'[k + i].id = wave_detector'.last_id
                     /\ ParseDate(pushed'[k + i]) = stack[i]
       /\ CallDump => wave_detector'.date_stack = <<>>
       /\ wave_detector'.wave_id >= wave_detector.wave_id]_vars

\* C20 happens: the stack holds two dates after a dump and two more pushes.
C20_Witness ==
    /\ dumps = 1
    /\ Len(pushed) = 3
    /\ Len(wave_detector.date_stack) = 2
    /\ wave_detector.wave_id > wave_id_start

====
